---------------------------- MODULE Spec2Model ----------------------------
(***************************************************************************)
(* Terminal-to-speech pipeline of simple-claude-gui.                       *)
(*                                                                         *)
(*   Terminal component  (src/unnamed/part_001): PTY chunks are stripped   *)
(*     of control sequences, accumulated in ttsBufferRef, scanned for      *)
(*     <open>...<close> speech markers, classified, deduplicated against   *)
(*     spokenContentRef and handed to speakText.                           *)
(*   VoiceProvider  (src/src/renderer/contexts/VoiceContext.tsx): the      *)
(*     queue, the processQueue loop, stopSpeaking.                         *)
(*   VoiceControls.handleVoiceOutput (src/src/renderer/components/         *)
(*     VoiceControls.tsx): the voice-output toggle.                        *)
(*   VoiceManager.speak / stopSpeaking (src/src/main/voice-manager.ts):    *)
(*     the synthesis child processes in the main process.                  *)
(*                                                                         *)
(* Text is a sequence of characters.  A character is a one-letter string,  *)
(* or a named token for a code point that has no printable form:           *)
(*   "LAQUO" U+00AB, "RAQUO" U+00BB (the marker brackets),                 *)
(*   "ESC" 0x1b, "BEL" 0x07, "CR" 0x0d, "LF" 0x0a, "TAB" 0x09,             *)
(*   "BACKTICK" 0x60, "BACKSLASH" 0x5c.                                    *)
(***************************************************************************)
EXTENDS Integers, Sequences, FiniteSets, TLC

\* null: no audio element, no tracked process (units are numbered from 1)
NULL == 0

-----------------------------------------------------------------------------
(* Character classes used by the regular expressions of the source.        *)

LowerLetters ==
    {"a","b","c","d","e","f","g","h","i","j","k","l","m",
     "n","o","p","q","r","s","t","u","v","w","x","y","z"}

UpperLetters ==
    {"A","B","C","D","E","F","G","H","I","J","K","L","M",
     "N","O","P","Q","R","S","T","U","V","W","X","Y","Z"}

\* [a-zA-Z]
Letters == LowerLetters \cup UpperLetters

\* [0-9;]
CsiParams == {"0","1","2","3","4","5","6","7","8","9",";"}

\* the control range 0x00-0x1f and 0x7f, restricted to the code points the model names
ControlChars == {"ESC", "BEL", "CR", "LF", "TAB"}

\* the regex whitespace class, restricted to the code points the model names
Whitespace == {" ", "TAB", "LF", "CR"}

\* the character class of looksLikeCode: braces, parentheses, brackets,
\* semicolon, equals sign, backtick, dollar sign
CodePunct == {"{", "}", "(", ")", "[", "]", ";", "=", "BACKTICK", "$"}

\* the speech markers
OpenMarker == <<"LAQUO", "t", "t", "s", "RAQUO">>

CloseMarker == <<"LAQUO", "/", "t", "t", "s", "RAQUO">>

\* the prefix ttsBufferRef is searched for before it is cleared
OpenPrefix == <<"LAQUO", "t", "t", "s">>

-----------------------------------------------------------------------------
(* Generic string helpers (String.prototype.substring / includes / trim).  *)

\* text.substring(i - 1)  (1-based i)
Substring(text, i) == SubSeq(text, i, Len(text))

\* pat occurs in text at 1-based position i
MatchesAt(text, pat, i) ==
    /\ i >= 1
    /\ i + Len(pat) - 1 <= Len(text)
    /\ SubSeq(text, i, i + Len(pat) - 1) = pat

\* text.indexOf(pat, from), 1-based; 0 when there is none (pat is not empty)
IndexOf(text, pat, from) ==
    LET hits == {i \in from..(Len(text) - Len(pat) + 1) :
                    text[i] = pat[1] /\ MatchesAt(text, pat, i)}
    IN  IF hits = {} THEN 0 ELSE CHOOSE i \in hits : \A j \in hits : i <= j

\* text.includes(pat)
Includes(text, pat) == IndexOf(text, pat, 1) # 0

\* String.prototype.trim
Trim(text) ==
    LET keep == {i \in 1..Len(text) : text[i] \notin Whitespace}
    IN  IF keep = {} THEN <<>>
        ELSE SubSeq(text, CHOOSE i \in keep : \A j \in keep : i <= j,
                          CHOOSE i \in keep : \A j \in keep : i >= j)

\* end of the maximal run of characters of class cls that starts at i (i - 1 if none)
RECURSIVE RunEnd(_, _, _)
RunEnd(text, cls, i) ==
    IF i <= Len(text) /\ text[i] \in cls THEN RunEnd(text, cls, i + 1) ELSE i - 1

-----------------------------------------------------------------------------
(* String.prototype.replace(regex, ...) with the g flag: the text is       *)
(* scanned left to right and every non-overlapping match is replaced.      *)
(* A ...Len operator gives the length of the match of one regex that       *)
(* starts at position i, 0 when there is none.                             *)

\* ESC [ params* letter, with an optional fixed character q after the bracket
CsiLikeLen(text, i, q) ==
    IF /\ i + 1 + Len(q) <= Len(text)
       /\ text[i] = "ESC"
       /\ text[i + 1] = "["
       /\ SubSeq(text, i + 2, i + 1 + Len(q)) = q
    THEN LET e == RunEnd(text, CsiParams, i + 2 + Len(q))
         IN  IF e + 1 <= Len(text) /\ text[e + 1] \in Letters
             THEN e + 2 - i ELSE 0
    ELSE 0

\* the CSI regex: ESC [ (digit or semicolon)* letter
CsiLen(text, i) == CsiLikeLen(text, i, <<>>)

\* the private-mode regex: ESC [ ? (digit or semicolon)* letter
PrivateLen(text, i) == CsiLikeLen(text, i, <<"?">>)

\* the OSC regex: ESC ] (anything but BEL)* BEL
OscLen(text, i) ==
    IF i + 1 <= Len(text) /\ text[i] = "ESC" /\ text[i + 1] = "]"
    THEN LET j == IndexOf(text, <<"BEL">>, i + 2)
         IN  IF j = 0 THEN 0 ELSE j + 1 - i
    ELSE 0

\* the string-sequence regex: ESC (P, X, ^ or _) (anything but ESC)* ESC backslash
StringSeqLen(text, i) ==
    IF i + 1 <= Len(text) /\ text[i] = "ESC" /\ text[i + 1] \in {"P", "X", "^", "_"}
    THEN LET j == IndexOf(text, <<"ESC">>, i + 2)
         IN  IF j # 0 /\ j + 1 <= Len(text) /\ text[j + 1] = "BACKSLASH"
             THEN j + 2 - i ELSE 0
    ELSE 0

\* one control character
ControlLen(text, i) == IF text[i] \in ControlChars THEN 1 ELSE 0

RegexLen(kind, text, i) ==
    CASE kind = "csi"     -> CsiLen(text, i)
      [] kind = "osc"     -> OscLen(text, i)
      [] kind = "private" -> PrivateLen(text, i)
      [] kind = "string"  -> StringSeqLen(text, i)
      [] kind = "control" -> ControlLen(text, i)

\* text.replace(regex of that kind, '') from position i on.  Every regex
\* of stripAnsi and speakText starts with a control character, so where
\* none is left the rest of the text is kept as it is.
RECURSIVE RemoveFrom(_, _, _)
RemoveFrom(kind, text, i) ==
    IF \A j \in i..Len(text) : text[j] \notin ControlChars
    THEN Substring(text, i)
    ELSE LET n == RegexLen(kind, text, i)
         IN  IF n > 0 THEN RemoveFrom(kind, text, i + n)
             ELSE <<text[i]>> \o RemoveFrom(kind, text, i + 1)

RemoveAll(kind, text) == RemoveFrom(kind, text, 1)

\* text.replace(/[cls]+/g, ' ') from position i on
RECURSIVE CollapseFrom(_, _, _)
CollapseFrom(cls, text, i) ==
    IF i > Len(text) THEN <<>>
    ELSE IF text[i] \in cls
         THEN <<" ">> \o CollapseFrom(cls, text, RunEnd(text, cls, i) + 1)
         ELSE <<text[i]>> \o CollapseFrom(cls, text, i + 1)

\* Terminal: stripAnsi
stripAnsi(text) ==
    RemoveAll("control",
      RemoveAll("string",
        RemoveAll("private",
          RemoveAll("osc",
            RemoveAll("csi", text)))))

\* VoiceProvider.speakText: the cleanText expression
CleanText(text) ==
    Trim(CollapseFrom(Whitespace,
           CollapseFrom({"CR", "LF"},
             RemoveAll("csi", text), 1), 1))

-----------------------------------------------------------------------------
(* The tag regex and the classifier of the onPtyData handler.              *)

\* All matches of the tag regex (open marker, shortest interior, close
\* marker) in buf from position from on, as the exec loop yields them:
\* content is match[1].trim(), next the position after the match
\* (lastIndex + 1).
RECURSIVE TagMatches(_, _)
TagMatches(buf, from) ==
    LET o == IndexOf(buf, OpenMarker, from)
        c == IF o = 0 THEN 0 ELSE IndexOf(buf, CloseMarker, o + Len(OpenMarker))
    IN  IF c = 0 THEN <<>>
        ELSE <<[content |-> Trim(SubSeq(buf, o + Len(OpenMarker), c - 1)),
                next    |-> c + Len(CloseMarker)]>>
             \o TagMatches(buf, c + Len(CloseMarker))

\* kw followed by a whitespace character occurs in content
KeywordThenSpace(content, kw) ==
    \E i \in 1..Len(content) :
        /\ MatchesAt(content, kw, i)
        /\ i + Len(kw) <= Len(content)
        /\ content[i + Len(kw)] \in Whitespace

\* content starts, after optional whitespace, with pat
StartsWith(content, pat) ==
    MatchesAt(content, pat, RunEnd(content, Whitespace, 1) + 1)

looksLikeCode(content) ==
    \/ \E i \in 1..Len(content) : content[i] \in CodePunct
    \/ StartsWith(content, <<"/", "/">>)
    \/ StartsWith(content, <<"#">>)
    \/ KeywordThenSpace(content, <<"f","u","n","c","t","i","o","n">>)
    \/ KeywordThenSpace(content, <<"c","o","n","s","t">>)
    \/ KeywordThenSpace(content, <<"l","e","t">>)
    \/ KeywordThenSpace(content, <<"v","a","r">>)

MIN_PROSE_LEN == 5

\* looksLikeProse with the length test of the replay
looksLikeProseShort(content) ==
    /\ Len(content) > 3
    /\ content[1] \in Letters
    /\ ~looksLikeCode(content)

\* looksLikeProse without the test of the first character
looksLikeProseAnyStart(content) ==
    /\ Len(content) > MIN_PROSE_LEN
    /\ ~looksLikeCode(content)

\* looksLikeProse without the test of looksLikeCode
looksLikeProseAnyText(content) ==
    /\ Len(content) > MIN_PROSE_LEN
    /\ content[1] \in Letters

looksLikeProse(content) ==
    /\ Len(content) > MIN_PROSE_LEN
    /\ content[1] \in Letters
    /\ ~looksLikeCode(content)

-----------------------------------------------------------------------------
(* Bounds of the model and constants of the program.                       *)

\* speakText calls that reach the queue
MaxSpeak == 2

\* clicks on the voice-output button
MaxToggles == 2

\* PTY chunks delivered to one terminal
MaxChunks == 3

\* remounts of one Terminal component
MaxRemounts == 1

\* length of the filling of a long chunk
LongLen == 1200

\* the past of a session with a long history: SeedSegs segments received,
\* SegsPerChunk per chunk; then it receives at most MaxUnique chunks of
\* NewSegs to NewSegs + 2 segments
SeedSegs == 990

SegsPerChunk == 10

NewSegs == 5

MaxUnique == 3

\* lines in the history of the session that is about to fill its buffer
SeedLines == 4998

\* lines such a session goes on to receive
MaxLines == 6

\* terminal sessions (tabs)
NumSessions == 2

MAX_BUFFER_CHUNKS == 5000

MAX_TTS_BUFFER == 2000

MAX_SPOKEN == 1000

KEEP_SPOKEN == 500

MIN_REPLAY_LEN == 3

MIN_CLEAN_LEN == 3

Sessions == 1..NumSessions

\* A unit is one call of the synthesis service together with the audio
\* element made from its result.  Units 1..MaxSpeak are the queue entries, in
\* the order speakText pushed them; the others are the test phrases of
\* handleVoiceOutput.
LoopUnits == 1..MaxSpeak

TestUnit(k) == MaxSpeak + k

Units == 1..(MaxSpeak + MaxToggles)

-----------------------------------------------------------------------------
VARIABLES
    \* ---- VoiceProvider (renderer) ----
    voiceOutputEnabled,     \* useState
    voiceOutputEnabledRef,  \* voiceOutputEnabledRef.current
    isSpeaking,             \* useState
    audioRef,               \* audioRef.current: a unit's audio element, or NULL
    speakQueueRef,          \* speakQueueRef.current: sequence of [n, text]
    isProcessingRef,        \* isProcessingRef.current
    awaiting,               \* per unit: which suspended code awaits it
                            \*   "synth": a processQueue loop awaits voiceSpeak
                            \*   "audio": a processQueue loop awaits the audio promise
                            \*   "test":  handleVoiceOutput awaits voiceSpeak
    audio,                  \* per unit: state of its HTMLAudioElement
    \* ---- VoiceManager (main process) ----
    proc,                   \* per unit: state of its piper process / IPC reply
    speakingProcess,        \* this.speakingProcess: a unit, or NULL
    \* ---- Terminal components, one per session ----
    terminalBuffers,        \* window.__TERMINAL_BUFFERS__: session -> chunks
    spokenContentRef,       \* session -> contents, in insertion order
    silentModeRef,          \* session -> BOOLEAN
    ttsBufferRef,           \* session -> text
    termVoiceEnabledRef,    \* session -> Terminal's voiceOutputEnabledRef.current
    isActiveRef,            \* session -> isActiveRef.current
    ptyWritten,             \* session -> writePty was called for it since the
                            \*   Terminal was mounted (the PTY got user input)
    display,                \* session -> the text terminal.write was given
                            \*   since the xterm of the Terminal was created
    \* ---- history of the run, read by the properties only ----
    enq,                    \* the texts pushed on the queue, in order: unit n is enq[n]
    speakCalls,             \* the Terminal's speakText calls, in order
    startLog,               \* the units whose audio started playing, in order
    stopped,                \* the units a loop awaited voiceSpeak for when
                            \*   stopSpeaking was called
    toggles,                \* clicks on the voice-output button so far
    mountNo,                \* session -> remounts so far
    recorded,               \* session -> for each remount so far, the contents
                            \*   spokenContentRef held when it happened
    pending                 \* text not yet delivered (chunking specification only)

voiceVars == <<voiceOutputEnabled, voiceOutputEnabledRef, isSpeaking, audioRef,
               speakQueueRef, isProcessingRef, awaiting, audio, proc,
               speakingProcess, enq, startLog, stopped>>

termVars == <<terminalBuffers, spokenContentRef, silentModeRef, ttsBufferRef,
              ptyWritten, display, speakCalls, mountNo, recorded>>

refVars == <<termVoiceEnabledRef, isActiveRef>>

vars == <<voiceVars, termVars, refVars, toggles, pending>>

-----------------------------------------------------------------------------
(* The VoiceProvider and VoiceManager state as one record, so that the     *)
(* synchronous part of a handler can be written as a function on it.       *)

VoiceState ==
    [voiceOutputEnabledRef |-> voiceOutputEnabledRef,
     isSpeaking            |-> isSpeaking,
     audioRef              |-> audioRef,
     speakQueueRef         |-> speakQueueRef,
     isProcessingRef       |-> isProcessingRef,
     awaiting              |-> awaiting,
     audio                 |-> audio,
     proc                  |-> proc,
     speakingProcess       |-> speakingProcess,
     enq                   |-> enq,
     startLog              |-> startLog,
     stopped               |-> stopped]

SetVoiceState(v) ==
    /\ voiceOutputEnabledRef' = v.voiceOutputEnabledRef
    /\ isSpeaking' = v.isSpeaking
    /\ audioRef' = v.audioRef
    /\ speakQueueRef' = v.speakQueueRef
    /\ isProcessingRef' = v.isProcessingRef
    /\ awaiting' = v.awaiting
    /\ audio' = v.audio
    /\ proc' = v.proc
    /\ speakingProcess' = v.speakingProcess
    /\ enq' = v.enq
    /\ startLog' = v.startLog
    /\ stopped' = v.stopped

\* VoiceManager.speak up to the spawn: the process runs and is the tracked one
Speak(v, u) ==
    [v EXCEPT !.proc[u] = "running", !.speakingProcess = u]

\* VoiceManager.stopSpeaking: kill the tracked process, if any
ManagerStopSpeaking(v) ==
    IF v.speakingProcess = NULL THEN v
    ELSE [v EXCEPT !.proc[v.speakingProcess] =
                       IF @ = "running" THEN "killed" ELSE @,
                   !.speakingProcess = NULL]

\* The loop step of a processQueue that returns without the two resets
\* that follow its while loop
LoopStepNoReset(v) ==
    IF v.speakQueueRef = <<>>
    THEN v
    ELSE LET u == Head(v.speakQueueRef).n
         IN  Speak([v EXCEPT !.speakQueueRef = Tail(@),
                             !.awaiting[u] = "synth"], u)

\* processQueue from the while condition to the next await: take the head
\* of the queue and call voiceSpeak for it, or leave the loop.
\* (The queue never holds an empty text, so "if (!text) continue" is dead.)
LoopStep(v) ==
    IF v.speakQueueRef = <<>>
    THEN [v EXCEPT !.isProcessingRef = FALSE, !.isSpeaking = FALSE]
    ELSE LET u == Head(v.speakQueueRef).n
         IN  Speak([v EXCEPT !.speakQueueRef = Tail(@),
                             !.awaiting[u] = "synth"], u)

\* processQueue as called: the guard, the flags, the first iteration
processQueue(v) ==
    IF v.isProcessingRef \/ v.speakQueueRef = <<>> THEN v
    ELSE LoopStep([v EXCEPT !.isProcessingRef = TRUE, !.isSpeaking = TRUE])

\* speakText without the call of processQueue that ends it: the text is
\* queued and nothing starts a loop for it
speakTextNoProcess(v, text) ==
    IF ~v.voiceOutputEnabledRef THEN v
    ELSE LET cleanText == CleanText(text)
         IN  IF Len(cleanText) < MIN_CLEAN_LEN THEN v
             ELSE [v EXCEPT !.speakQueueRef =
                                Append(@, [n |-> Len(v.enq) + 1, text |-> cleanText]),
                            !.enq = Append(@, cleanText)]

\* speakText that also skips a clean text of exactly three characters
speakTextStrict(v, text) ==
    IF ~v.voiceOutputEnabledRef THEN v
    ELSE LET cleanText == CleanText(text)
         IN  IF Len(cleanText) <= MIN_CLEAN_LEN THEN v
             ELSE processQueue(
                    [v EXCEPT !.speakQueueRef =
                                  Append(@, [n |-> Len(v.enq) + 1, text |-> cleanText]),
                              !.enq = Append(@, cleanText)])

\* speakText(text)
speakText(v, text) ==
    IF ~v.voiceOutputEnabledRef THEN v
    ELSE LET cleanText == CleanText(text)
         IN  IF Len(cleanText) < MIN_CLEAN_LEN THEN v
             ELSE processQueue(
                    [v EXCEPT !.speakQueueRef =
                                  Append(@, [n |-> Len(v.enq) + 1, text |-> cleanText]),
                              !.enq = Append(@, cleanText)])

\* stopSpeaking that flips isSpeaking instead of clearing it
stopSpeakingFlip(v) ==
    LET paused == IF v.audioRef = NULL THEN v
                  ELSE [v EXCEPT !.audio[v.audioRef] =
                                     IF @ = "playing" THEN "paused" ELSE @,
                                 !.audioRef = NULL]
        killed == ManagerStopSpeaking([paused EXCEPT !.speakQueueRef = <<>>])
    IN  [killed EXCEPT !.isSpeaking = ~@, !.isProcessingRef = FALSE,
                       !.stopped = @ \cup {u \in LoopUnits : v.awaiting[u] = "synth"}]

\* stopSpeaking()
stopSpeaking(v) ==
    LET paused == IF v.audioRef = NULL THEN v
                  ELSE [v EXCEPT !.audio[v.audioRef] =
                                     IF @ = "playing" THEN "paused" ELSE @,
                                 !.audioRef = NULL]
        killed == ManagerStopSpeaking([paused EXCEPT !.speakQueueRef = <<>>])
    IN  [killed EXCEPT !.isSpeaking = FALSE, !.isProcessingRef = FALSE,
                       !.stopped = @ \cup {u \in LoopUnits : v.awaiting[u] = "synth"}]

-----------------------------------------------------------------------------
(* The Terminal component: the text side of the onPtyData handler and of   *)
(* the mount effect, as functions.                                         *)

Range(seq) == {seq[i] : i \in DOMAIN seq}

\* the last n elements: Array.prototype.slice(-n), substring(length - n)
LastN(seq, n) == IF Len(seq) <= n THEN seq ELSE SubSeq(seq, Len(seq) - n + 1, Len(seq))

\* The exec loop without the test of the spoken set: every content that
\* looks like prose is accepted again
RECURSIVE AcceptMatchesNoDedup(_, _, _)
AcceptMatchesNoDedup(matches, k, spoken) ==
    IF k > Len(matches) THEN spoken
    ELSE LET content == matches[k].content
         IN  AcceptMatchesNoDedup(matches, k + 1,
                 IF looksLikeProse(content)
                 THEN Append(spoken, content) ELSE spoken)

\* The exec loop of onPtyData over the matches k.. : a content that looks
\* like prose and is not in the spoken set is added to it.
RECURSIVE AcceptMatches(_, _, _)
AcceptMatches(matches, k, spoken) ==
    IF k > Len(matches) THEN spoken
    ELSE LET content == matches[k].content
         IN  AcceptMatches(matches, k + 1,
                 IF looksLikeProse(content) /\ content \notin Range(spoken)
                 THEN Append(spoken, content) ELSE spoken)

\* KeepBuffer without the limit of the buffer size
KeepBufferNoCap(buffer, matches) ==
    LET rest == IF matches = <<>> THEN buffer
                ELSE Substring(buffer, matches[Len(matches)].next)
    IN  IF Includes(rest, OpenPrefix) THEN rest ELSE <<>>

\* What is kept of the buffer after the exec loop: the part after the last
\* match, cleared when it holds no open marker prefix, cut to its tail.
KeepBuffer(buffer, matches) ==
    LET rest == IF matches = <<>> THEN buffer
                ELSE Substring(buffer, matches[Len(matches)].next)
        kept == IF Includes(rest, OpenPrefix) THEN rest ELSE <<>>
    IN  LastN(kept, MAX_TTS_BUFFER)

\* the size limit applied from half the ceiling on
LimitSpokenEarly(spoken) ==
    IF Len(spoken) > KEEP_SPOKEN THEN LastN(spoken, KEEP_SPOKEN) ELSE spoken

\* the size limit keeping the oldest entries instead of the newest
LimitSpokenOldest(spoken) ==
    IF Len(spoken) > MAX_SPOKEN THEN SubSeq(spoken, 1, KEEP_SPOKEN) ELSE spoken

\* spokenContentRef after the size limit of onPtyData
LimitSpoken(spoken) ==
    IF Len(spoken) > MAX_SPOKEN THEN LastN(spoken, KEEP_SPOKEN) ELSE spoken

\* The TTS part of onPtyData scanning each chunk alone: what is left of
\* the earlier chunks is not put before the new one
TtsStepPerChunk(buffer0, spoken0, data) ==
    LET buffer   == stripAnsi(data)
        matches  == TagMatches(buffer, 1)
        spoken1  == AcceptMatches(matches, 1, spoken0)
    IN  [buffer   |-> KeepBuffer(buffer, matches),
         spoken   |-> LimitSpoken(spoken1),
         accepted |-> SubSeq(spoken1, Len(spoken0) + 1, Len(spoken1))]

\* The TTS part of onPtyData for one chunk: the new buffer, the new spoken
\* set, and the contents accepted by this chunk (those the handler goes on
\* to gate and speak), in order.
TtsStep(buffer0, spoken0, data) ==
    LET buffer   == buffer0 \o stripAnsi(data)
        matches  == TagMatches(buffer, 1)
        spoken1  == AcceptMatches(matches, 1, spoken0)
    IN  [buffer   |-> KeepBuffer(buffer, matches),
         spoken   |-> LimitSpoken(spoken1),
         accepted |-> SubSeq(spoken1, Len(spoken0) + 1, Len(spoken1))]

\* The history buffer after one more chunk
PushChunk(buf, data) == LastN(Append(buf, data), MAX_BUFFER_CHUNKS)

\* position i of the text lies in a match of /«\/?tts»/: an open or a close
\* marker starts at it or at most a marker's length before it.  (Both
\* markers start with their only LAQUO, so no two matches overlap and the
\* scan from the left finds every one of them.)
InMarker(text, i) ==
    \E j \in (i - Len(CloseMarker) + 1)..i :
        /\ j >= 1
        /\ text[j] = OpenMarker[1]
        /\ \/ j + Len(OpenMarker) > i /\ MatchesAt(text, OpenMarker, j)
           \/ j + Len(CloseMarker) > i /\ MatchesAt(text, CloseMarker, j)

\* data.replace(/«\/?tts»/g, ''): the text without the open and close
\* markers that lie whole in it
StripMarkers(data) ==
    LET kept == SelectSeq([i \in 1..Len(data) |-> i],
                          LAMBDA i : ~InMarker(data, i))
    IN  [k \in 1..Len(kept) |-> data[kept[k]]]

\* the chunks lo..hi of a history buffer written one after the other (two
\* halves of the range, so that a long history is evaluated at a small
\* depth of nesting)
RECURSIVE JoinRange(_, _, _)
JoinRange(chunks, lo, hi) ==
    IF lo > hi THEN <<>>
    ELSE IF lo = hi THEN chunks[lo]
    ELSE LET mid == (lo + hi) \div 2
         IN  JoinRange(chunks, lo, mid) \o JoinRange(chunks, mid + 1, hi)

\* the replay's terminal.write(chunk) for every chunk of the buffer
Join(chunks) == JoinRange(chunks, 1, Len(chunks))

\* what the live path has written for the chunks of a buffer:
\* terminal.write(displayData) for each
Shown(chunks) == Join([k \in 1..Len(chunks) |-> StripMarkers(chunks[k])])

\* The inner loop of the mount effect's replay for one chunk: every tag
\* content of the chunk longer than 3 is added to the set.
RECURSIVE ReplayMatches(_, _, _)
ReplayMatches(matches, k, spoken) ==
    IF k > Len(matches) THEN spoken
    ELSE LET content == matches[k].content
         IN  ReplayMatches(matches, k + 1,
                 IF Len(content) > MIN_REPLAY_LEN /\ content \notin Range(spoken)
                 THEN Append(spoken, content) ELSE spoken)

\* The tag scan of the mount effect for one buffered chunk
ReplayChunk(chunk, spoken) ==
    ReplayMatches(TagMatches(stripAnsi(chunk), 1), 1, spoken)

\* the one element of a set of one element
Only(S) == CHOOSE x \in S : TRUE

\* The outer loop of the replay over the buffered chunks lo..hi, in order:
\* the chunks of the first half of the range, then those of the second
\* half from the set the first half has left (the loop, cut in two so that
\* a long history is evaluated at a small depth of nesting).
RECURSIVE ReplayRange(_, _, _, _)
ReplayRange(buffer, lo, hi, spoken) ==
    IF lo > hi THEN spoken
    ELSE IF lo = hi THEN ReplayChunk(buffer[lo], spoken)
    ELSE LET mid == (lo + hi) \div 2
         IN  Only({ReplayRange(buffer, mid + 1, hi, first) :
                      first \in {ReplayRange(buffer, lo, mid, spoken)}})

\* The outer loop of the replay over the buffered chunks k..
ReplayBuffer(buffer, k, spoken) == ReplayRange(buffer, k, Len(buffer), spoken)

\* speakText for each of the texts k.. in order
RECURSIVE SpeakAll(_, _, _)
SpeakAll(v, texts, k) ==
    IF k > Len(texts) THEN v
    ELSE SpeakAll(speakText(v, texts[k]), texts, k + 1)

-----------------------------------------------------------------------------
(* Inputs.                                                                 *)

HelloA == <<"H", "e", "l", "l", "o", " ", "a">>

HelloB == <<"H", "e", "l", "l", "o", " ", "b">>

\* one whole segment in one chunk
ChunkA == OpenMarker \o HelloA \o CloseMarker

ChunkB == OpenMarker \o HelloB \o CloseMarker

\* the segment of ChunkB in two chunks
ChunkB1 == OpenMarker \o <<"H", "e", "l">>

ChunkB2 == <<"l", "o", " ", "b">> \o CloseMarker

\* segment texts that hold code: the example of the specification, one
\* declaration keyword each without any punctuation, and punctuation alone
FunctionFoo ==
    <<"f","u","n","c","t","i","o","n"," ","f","o","o","(",")"," ","{">>

CodeTexts ==
    { FunctionFoo,
      <<"c","o","n","s","t"," ","a","b","c">>,
      <<"P","l","e","a","s","e"," ","l","e","t"," ","m","e">>,
      <<"v","a","r"," ","a","b","c">>,
      <<"H","e","l","l","o"," ","=","b",";">>,
      <<"H","e","l","l","o"," ","BACKTICK","b","BACKTICK">>,
      <<"H","e","l","l","o"," ","[","b","]">> }

\* each as a delimited segment in one chunk, and one prose segment
CodeChunks == {OpenMarker \o text \o CloseMarker : text \in CodeTexts} \cup {ChunkA}

\* n times the character ch
Fill(n, ch) == [i \in 1..n |-> ch]

\* long output: a segment that opens and does not close, output without
\* any marker, and the end of a segment
LongOpen == OpenMarker \o Fill(LongLen, "a")

LongFill == Fill(LongLen, "b")

LongClose == Fill(LongLen, "c") \o CloseMarker

LongChunks == {LongOpen, LongFill, LongClose, ChunkA, ChunkB1}

\* the k-th of a stream of segments that all differ: "Seg " and the four
\* decimal digits of k
Digit(d) == <<"0", "1", "2", "3", "4", "5", "6", "7", "8", "9">>[d + 1]

Seg(k) ==
    <<"S", "e", "g", " ", Digit((k \div 1000) % 10), Digit((k \div 100) % 10),
      Digit((k \div 10) % 10), Digit(k % 10)>>

\* the k-th segment, delimited, as one chunk
SegChunk(k) == OpenMarker \o Seg(k) \o CloseMarker

\* the segments from .. from + n - 1 of the stream, each delimited, as one
\* chunk
SegBlock(from, n) ==
    [i \in 1..(n * Len(SegChunk(from))) |->
        SegChunk(from + (i - 1) \div Len(SegChunk(from)))
                [((i - 1) % Len(SegChunk(from))) + 1]]

\* the history of a session that has received the lines 1..SeedLines of
\* plain output, one per chunk
SeedPlain == [k \in 1..SeedLines |-> Seg(k)]

\* the exit codes of the PTY process
ExitCodes == {0, 1}

\* the exit message: "\r\n\x1b[90m[Process exited with code N]\x1b[0m\r\n"
ExitMessage(code) ==
    <<"CR", "LF", "ESC", "[", "9", "0", "m", "[", "P", "r", "o", "c", "e", "s",
      "s", " ", "e", "x", "i", "t", "e", "d", " ", "w", "i", "t", "h", " ", "c",
      "o", "d", "e", " ", Digit(code), "]", "ESC", "[", "0", "m", "CR", "LF">>

\* the history of a session that has received the first SeedSegs segments
\* of the stream, SegsPerChunk per chunk (the last chunk holds the rest)
SeedHistory ==
    [c \in 1..((SeedSegs + SegsPerChunk - 1) \div SegsPerChunk) |->
        LET from == (c - 1) * SegsPerChunk + 1
            n    == IF from + SegsPerChunk - 1 <= SeedSegs
                    THEN SegsPerChunk ELSE SeedSegs - from + 1
        IN  SegBlock(from, n)]

\* segment texts at and around the tests of looksLikeProse: too short
\* ("ok", also padded with blanks, and five characters), not starting with
\* a letter (digit, underscore, dash), starting with a letter and holding
\* a dollar sign, six characters starting with a capital, and blanks in a
\* row between two letters
ShortTexts ==
    { <<"o","k">>,
      <<" "," ","o","k"," "," "," ">>,
      <<"H","e","l","l","o">> }

OddStartTexts ==
    { <<"1"," ","a","p","p","l","e">>,
      <<"_","h","i","d","d","e","n">>,
      <<"-"," ","i","t","e","m"," ","a">> }

DollarText == <<"C","o","s","t"," ","$","5"," ","n","o","w">>

ZebraText == <<"Z","e","b","r","a","!">>

SpacedText == <<"a"," "," "," "," "," ","b">>

ProseTexts ==
    ShortTexts \cup OddStartTexts \cup {DollarText, ZebraText, SpacedText, HelloA}

\* each as a delimited segment in one chunk
Wrap(text) == OpenMarker \o text \o CloseMarker

\* an open marker and text that no close marker follows
OpenOnly == OpenMarker \o HelloA \o <<" ">>

\* the chunks the PTY delivers
SampleChunks == {ChunkA, ChunkB, ChunkB1, ChunkB2}

\* the texts speakText is called with directly
SampleTexts == {HelloA, HelloB}

-----------------------------------------------------------------------------
(* Initial state: the provider and every Terminal mounted, no output yet.  *)

BaseInit ==
    /\ voiceOutputEnabled = FALSE
    /\ voiceOutputEnabledRef = FALSE
    /\ isSpeaking = FALSE
    /\ audioRef = NULL
    /\ speakQueueRef = <<>>
    /\ isProcessingRef = FALSE
    /\ awaiting = [u \in Units |-> "none"]
    /\ audio = [u \in Units |-> "none"]
    /\ proc = [u \in Units |-> "none"]
    /\ speakingProcess = NULL
    /\ terminalBuffers = [s \in Sessions |-> <<>>]
    /\ spokenContentRef = [s \in Sessions |-> <<>>]
    /\ silentModeRef = [s \in Sessions |-> TRUE]
    /\ ttsBufferRef = [s \in Sessions |-> <<>>]
    /\ termVoiceEnabledRef = [s \in Sessions |-> FALSE]
    /\ isActiveRef = [s \in Sessions |-> s = 1]
    /\ ptyWritten = [s \in Sessions |-> FALSE]
    /\ display = [s \in Sessions |-> <<>>]
    /\ enq = <<>>
    /\ speakCalls = <<>>
    /\ startLog = <<>>
    /\ stopped = {}
    /\ toggles = 0
    /\ mountNo = [s \in Sessions |-> 0]
    /\ recorded = [s \in Sessions |-> <<>>]

\* the spoken set the live path builds from the chunks k.. in order,
\* starting from that buffer and set
RECURSIVE LiveSegments(_, _, _, _)
LiveSegments(chunks, k, buffer, spoken) ==
    IF k > Len(chunks) THEN spoken
    ELSE LET r == TtsStep(buffer, spoken, chunks[k])
         IN  LiveSegments(chunks, k + 1, r.buffer, r.spoken)

\* the spoken set after the chunks of SeedHistory: their segments, which
\* all differ and look like prose, in the order of arrival (fewer than the
\* limit of the set, so that none was dropped)
SeedSpoken == [k \in 1..SeedSegs |-> Seg(k)]

Init ==
    /\ BaseInit
    /\ pending = <<>>

\* Session 1 has received the chunks of SeedHistory since it was opened
\* and its handler has built the spoken set from them; nobody has typed
\* and voice output was never switched on.
InitSpoken ==
    /\ voiceOutputEnabled = FALSE
    /\ voiceOutputEnabledRef = FALSE
    /\ isSpeaking = FALSE
    /\ audioRef = NULL
    /\ speakQueueRef = <<>>
    /\ isProcessingRef = FALSE
    /\ awaiting = [u \in Units |-> "none"]
    /\ audio = [u \in Units |-> "none"]
    /\ proc = [u \in Units |-> "none"]
    /\ speakingProcess = NULL
    /\ terminalBuffers = [s \in Sessions |-> IF s = 1 THEN SeedHistory ELSE <<>>]
    /\ spokenContentRef = [s \in Sessions |-> IF s = 1 THEN SeedSpoken ELSE <<>>]
    /\ silentModeRef = [s \in Sessions |-> TRUE]
    /\ ttsBufferRef = [s \in Sessions |-> <<>>]
    /\ termVoiceEnabledRef = [s \in Sessions |-> FALSE]
    /\ isActiveRef = [s \in Sessions |-> s = 1]
    /\ ptyWritten = [s \in Sessions |-> FALSE]
    /\ display = [s \in Sessions |-> IF s = 1 THEN Shown(SeedHistory) ELSE <<>>]
    /\ enq = <<>>
    /\ speakCalls = <<>>
    /\ startLog = <<>>
    /\ stopped = {}
    /\ toggles = 0
    /\ mountNo = [s \in Sessions |-> 0]
    /\ recorded = [s \in Sessions |-> <<>>]
    /\ pending = <<>>

-----------------------------------------------------------------------------
(* VoiceProvider and VoiceManager actions.                                 *)

\* speakText(text) called through the context
SpeakTextCall(text) ==
    /\ Len(enq) < MaxSpeak
    /\ SetVoiceState(speakText(VoiceState, text))
    /\ UNCHANGED <<voiceOutputEnabled, termVars, refVars, toggles, pending>>

\* stopSpeaking() called through the context
StopSpeakingCall ==
    /\ SetVoiceState(stopSpeaking(VoiceState))
    /\ UNCHANGED <<voiceOutputEnabled, termVars, refVars, toggles, pending>>

\* VoiceControls.handleVoiceOutput with the engine installed, followed by
\* the render it causes and that render's effects: the two ref-sync
\* effects and the provider's stop-when-disabled effect.
HandleVoiceOutput ==
    /\ toggles < MaxToggles
    /\ LET newState == ~voiceOutputEnabled
           v1 == IF isSpeaking THEN stopSpeaking(VoiceState) ELSE VoiceState
           \* the test phrase: voiceSpeak outside the queue
           v2 == IF newState
                 THEN Speak([v1 EXCEPT !.awaiting[TestUnit(toggles + 1)] = "test"],
                            TestUnit(toggles + 1))
                 ELSE v1
           v3 == [v2 EXCEPT !.voiceOutputEnabledRef = newState]
           v4 == IF newState THEN v3 ELSE stopSpeaking(v3)
       IN  /\ voiceOutputEnabled' = newState
           /\ termVoiceEnabledRef' = [s \in Sessions |-> newState]
           /\ SetVoiceState(v4)
    /\ toggles' = toggles + 1
    /\ UNCHANGED <<termVars, isActiveRef, pending>>

\* VoiceManager.speak: the process emits close (code 0 and the file is
\* there, or not) or error; the promise of speak resolves.
ProcExit(u) ==
    /\ proc[u] \in {"running", "killed"}
    /\ \E ok \in BOOLEAN :
        /\ proc[u] = "killed" => ~ok
        /\ proc' = [proc EXCEPT ![u] = IF ok THEN "replyOk" ELSE "replyErr"]
    /\ speakingProcess' = NULL
    /\ UNCHANGED <<voiceOutputEnabled, voiceOutputEnabledRef, isSpeaking, audioRef,
                   speakQueueRef, isProcessingRef, awaiting, audio, enq, startLog,
                   stopped, termVars, refVars, toggles, pending>>

\* new Audio(url) and audio.play(): the element starts playing, or play()
\* is going to reject
NewAudio(v, u, rejects) ==
    [v EXCEPT !.audio[u] = IF rejects THEN "failed" ELSE "playing",
              !.startLog = IF rejects THEN @ ELSE Append(@, u)]

\* processQueue resumes after "await voiceSpeak(text)"
VoiceSpeakReturns(u) ==
    /\ awaiting[u] = "synth"
    /\ proc[u] \in {"replyOk", "replyErr"}
    /\ LET v == [VoiceState EXCEPT !.proc[u] = "done"]
       IN  IF proc[u] = "replyOk"
           THEN \E rejects \in BOOLEAN :
                  SetVoiceState(NewAudio([v EXCEPT !.awaiting[u] = "audio",
                                                   !.audioRef = u], u, rejects))
           ELSE SetVoiceState(LoopStep([v EXCEPT !.awaiting[u] = "none"]))
    /\ UNCHANGED <<voiceOutputEnabled, termVars, refVars, toggles, pending>>

\* handleVoiceOutput's then-callback of the test phrase
TestSpeakReturns(u) ==
    /\ awaiting[u] = "test"
    /\ proc[u] \in {"replyOk", "replyErr"}
    /\ LET v == [VoiceState EXCEPT !.proc[u] = "done", !.awaiting[u] = "none"]
       IN  IF proc[u] = "replyOk"
           THEN \E rejects \in BOOLEAN : SetVoiceState(NewAudio(v, u, rejects))
           ELSE SetVoiceState(v)
    /\ UNCHANGED <<voiceOutputEnabled, termVars, refVars, toggles, pending>>

\* The end of an audio element's life where a playback error ends the
\* loop: the queue is dropped and the provider goes idle
AudioDoneAbortOnError(u, how) ==
    LET v == [VoiceState EXCEPT !.audio[u] = "done"]
    IN  IF awaiting[u] = "audio"
        THEN IF how = "ended"
             THEN SetVoiceState(LoopStep([v EXCEPT !.awaiting[u] = "none",
                                                   !.audioRef = NULL]))
             ELSE SetVoiceState([v EXCEPT !.awaiting[u] = "none",
                                          !.speakQueueRef = <<>>,
                                          !.isProcessingRef = FALSE,
                                          !.isSpeaking = FALSE])
        ELSE SetVoiceState(v)

\* The end of an audio element's life ("done"), and the handler
\* processQueue set for it when the element is a queue entry's:
\*   "ended"    audio.onended:     audioRef.current = null; resolve()
\*   "errored"  audio.onerror:     audioRef.current = null; resolve()
\*   "rejected" play().catch(...): resolve()
AudioDone(u, how) ==
    LET v == [VoiceState EXCEPT !.audio[u] = "done"]
    IN  IF awaiting[u] = "audio"
        THEN SetVoiceState(LoopStep(
                 [v EXCEPT !.awaiting[u] = "none",
                           !.audioRef = IF how = "rejected" THEN @ ELSE NULL]))
        ELSE SetVoiceState(v)

AudioEnded(u) ==
    /\ audio[u] = "playing"
    /\ AudioDone(u, "ended")
    /\ UNCHANGED <<voiceOutputEnabled, termVars, refVars, toggles, pending>>

AudioError(u) ==
    /\ audio[u] = "playing"
    /\ AudioDone(u, "errored")
    /\ UNCHANGED <<voiceOutputEnabled, termVars, refVars, toggles, pending>>

PlayRejected(u) ==
    /\ audio[u] = "failed"
    /\ AudioDone(u, "rejected")
    /\ UNCHANGED <<voiceOutputEnabled, termVars, refVars, toggles, pending>>

-----------------------------------------------------------------------------
(* Terminal actions.                                                       *)

\* Session 1 has received the chunks of SeedPlain since it was opened:
\* output without a segment, so that nothing was recorded and the
\* handler's buffer is empty; all of it was written to the display.
\* Nobody has typed and voice output was never switched on.
InitHistory ==
    /\ voiceOutputEnabled = FALSE
    /\ voiceOutputEnabledRef = FALSE
    /\ isSpeaking = FALSE
    /\ audioRef = NULL
    /\ speakQueueRef = <<>>
    /\ isProcessingRef = FALSE
    /\ awaiting = [u \in Units |-> "none"]
    /\ audio = [u \in Units |-> "none"]
    /\ proc = [u \in Units |-> "none"]
    /\ speakingProcess = NULL
    /\ terminalBuffers = [s \in Sessions |-> IF s = 1 THEN SeedPlain ELSE <<>>]
    /\ spokenContentRef = [s \in Sessions |-> <<>>]
    /\ silentModeRef = [s \in Sessions |-> TRUE]
    /\ ttsBufferRef = [s \in Sessions |-> <<>>]
    /\ termVoiceEnabledRef = [s \in Sessions |-> FALSE]
    /\ isActiveRef = [s \in Sessions |-> s = 1]
    /\ ptyWritten = [s \in Sessions |-> FALSE]
    /\ display = [s \in Sessions |-> IF s = 1 THEN Shown(SeedPlain) ELSE <<>>]
    /\ enq = <<>>
    /\ speakCalls = <<>>
    /\ startLog = <<>>
    /\ stopped = {}
    /\ toggles = 0
    /\ mountNo = [s \in Sessions |-> 0]
    /\ recorded = [s \in Sessions |-> <<>>]
    /\ pending = <<>>

\* chunks delivered so far, over all sessions
Delivered ==
    LET RECURSIVE Sum(_)
        Sum(k) == IF k = 0 THEN 0 ELSE Len(terminalBuffers[k]) + Sum(k - 1)
    IN  Sum(NumSessions)

\* onPtyData without the test that guards speakText(content): every
\* accepted content is passed to speakText
OnPtyDataNoGate(s, data) ==
    /\ Delivered < MaxChunks
    /\ LET r     == TtsStep(ttsBufferRef[s], spokenContentRef[s], data)
           said  == r.accepted
           v     == SpeakAll(VoiceState, said, 1)
       IN  /\ Len(v.enq) <= MaxSpeak
           /\ terminalBuffers' = [terminalBuffers EXCEPT ![s] = PushChunk(@, data)]
           /\ ttsBufferRef' = [ttsBufferRef EXCEPT ![s] = r.buffer]
           /\ spokenContentRef' = [spokenContentRef EXCEPT ![s] = r.spoken]
           /\ speakCalls' = speakCalls \o
                  [i \in 1..Len(said) |-> [s |-> s, text |-> said[i],
                                           mount |-> mountNo[s], tog |-> toggles,
                                           n |-> Len(enq) + i]]
           /\ SetVoiceState(v)
    /\ display' = [display EXCEPT ![s] = @ \o StripMarkers(data)]
    /\ UNCHANGED <<voiceOutputEnabled, silentModeRef, ptyWritten, mountNo,
                   recorded, refVars, toggles>>

\* The body of the onPtyData handler of session s for the chunk data.
HandlePtyData(s, data) ==
    /\ LET r     == TtsStep(ttsBufferRef[s], spokenContentRef[s], data)
           speak == termVoiceEnabledRef[s] /\ isActiveRef[s] /\ ~silentModeRef[s]
           said  == IF speak THEN r.accepted ELSE <<>>
           v     == SpeakAll(VoiceState, said, 1)
       IN  /\ Len(v.enq) <= MaxSpeak
           /\ terminalBuffers' = [terminalBuffers EXCEPT ![s] = PushChunk(@, data)]
           /\ ttsBufferRef' = [ttsBufferRef EXCEPT ![s] = r.buffer]
           /\ spokenContentRef' = [spokenContentRef EXCEPT ![s] = r.spoken]
           /\ speakCalls' = speakCalls \o
                  [i \in 1..Len(said) |-> [s |-> s, text |-> said[i],
                                           mount |-> mountNo[s], tog |-> toggles,
                                           n |-> Len(enq) + i]]
           /\ SetVoiceState(v)
    /\ display' = [display EXCEPT ![s] = @ \o StripMarkers(data)]
    /\ UNCHANGED <<voiceOutputEnabled, silentModeRef, ptyWritten, mountNo,
                   recorded, refVars, toggles>>

\* The onPtyData handler of session s for the chunk data.
OnPtyData(s, data) ==
    /\ Delivered < MaxChunks
    /\ HandlePtyData(s, data)

PtyData(s) ==
    /\ \E data \in SampleChunks : OnPtyData(s, data)
    /\ UNCHANGED pending

\* onPtyData for a chunk that holds one whole segment
PtySegment(s) ==
    /\ \E data \in {ChunkA, ChunkB} : OnPtyData(s, data)
    /\ UNCHANGED pending

\* terminal.onData with one silent flag shared by the terminals: typing
\* into one terminal ends the silent mode of all
UserInputShared(s) ==
    /\ silentModeRef[s]
    /\ silentModeRef' = [t \in Sessions |-> FALSE]
    /\ ptyWritten' = [ptyWritten EXCEPT ![s] = TRUE]
    /\ UNCHANGED <<voiceVars, voiceOutputEnabled, terminalBuffers, spokenContentRef,
                   ttsBufferRef, display, speakCalls, mountNo, recorded, refVars,
                   toggles, pending>>

\* onPtyData for a chunk that holds a segment of code, or of prose
PtyCode(s) ==
    /\ \E data \in CodeChunks : OnPtyData(s, data)
    /\ UNCHANGED pending

\* onPtyData for a chunk that holds one of the segments of ProseTexts
PtyProse(s) ==
    /\ \E text \in ProseTexts : OnPtyData(s, Wrap(text))
    /\ UNCHANGED pending

\* onPtyData for a chunk that opens a segment and does not close it, or
\* for one that holds a whole segment
PtyOpen(s) ==
    /\ \E data \in {OpenOnly, ChunkB} : OnPtyData(s, data)
    /\ UNCHANGED pending

\* onPtyData for a long chunk, or a short one
PtyLong(s) ==
    /\ \E data \in LongChunks : OnPtyData(s, data)
    /\ UNCHANGED pending

\* the number of the last segment session s has received: the digits
\* before the close marker that ends its last chunk
Received(s) ==
    LET last == terminalBuffers[s][Len(terminalBuffers[s])]
        at   == Len(last) - Len(CloseMarker)
        Val(c) == CHOOSE d \in 0..9 : Digit(d) = c
    IN  1000 * Val(last[at - 3]) + 100 * Val(last[at - 2])
           + 10 * Val(last[at - 1]) + Val(last[at])

\* onPtyData for a chunk that holds the next NewSegs segments of the
\* stream, or one or two more
PtyUnique(s) ==
    /\ Len(terminalBuffers[s]) < Len(SeedHistory) + MaxUnique
    /\ \E n \in NewSegs..(NewSegs + 2) :
           HandlePtyData(s, SegBlock(Received(s) + 1, n))
    /\ UNCHANGED pending

\* the PTY process of session s has exited: the last chunk of its history
\* is the exit message
Exited(s) ==
    /\ terminalBuffers[s] # <<>>
    /\ \E code \in ExitCodes :
           terminalBuffers[s][Len(terminalBuffers[s])] = ExitMessage(code)

\* the number of the last line session s has received: the digits that
\* end its last chunk
LastLine(s) ==
    LET last == terminalBuffers[s][Len(terminalBuffers[s])]
        at   == Len(last)
        Val(c) == CHOOSE d \in 0..9 : Digit(d) = c
    IN  1000 * Val(last[at - 3]) + 100 * Val(last[at - 2])
           + 10 * Val(last[at - 1]) + Val(last[at])

\* onPtyData for a chunk that holds the next line of the output, or the
\* one after it, while the process runs
PtyLine(s) ==
    /\ ~Exited(s)
    /\ LastLine(s) < SeedLines + MaxLines
    /\ \E n \in 1..2 : HandlePtyData(s, Seg(LastLine(s) + n))
    /\ UNCHANGED pending

\* The onPtyExit handler of session s: the exit message is written to the
\* terminal and pushed on the history buffer.
OnPtyExit(s, code) ==
    /\ display' = [display EXCEPT ![s] = @ \o ExitMessage(code)]
    /\ terminalBuffers' = [terminalBuffers EXCEPT ![s] = Append(@, ExitMessage(code))]
    /\ UNCHANGED <<voiceVars, voiceOutputEnabled, spokenContentRef, silentModeRef,
                   ttsBufferRef, ptyWritten, speakCalls, mountNo, recorded,
                   refVars, toggles, pending>>

\* the PTY process of session s exits, once
PtyExit(s) ==
    /\ ~Exited(s)
    /\ \E code \in ExitCodes : OnPtyExit(s, code)

\* terminal.onData: the user typed into terminal s
UserInput(s) ==
    /\ silentModeRef[s]
    /\ silentModeRef' = [silentModeRef EXCEPT ![s] = FALSE]
    /\ ptyWritten' = [ptyWritten EXCEPT ![s] = TRUE]
    /\ UNCHANGED <<voiceVars, voiceOutputEnabled, terminalBuffers, spokenContentRef,
                   ttsBufferRef, display, speakCalls, mountNo, recorded, refVars,
                   toggles, pending>>

\* Input that reaches the PTY of terminal s without passing terminal.onData:
\* a paste (Ctrl+V, right click, middle click: handlePaste), an arrow key
\* sent by the custom key handler, or dropped files.  Each calls writePty
\* and touches no ref of the component.
PasteInput(s) ==
    /\ ptyWritten' = [ptyWritten EXCEPT ![s] = TRUE]
    /\ UNCHANGED <<voiceVars, voiceOutputEnabled, terminalBuffers, spokenContentRef,
                   silentModeRef, ttsBufferRef, display, speakCalls, mountNo,
                   recorded, refVars, toggles, pending>>

\* The Terminal of session s is unmounted and mounted again for the same
\* ptyId: the cleanup, then the mount effect with its reset and replay.
Remount(s) ==
    /\ mountNo[s] < MaxRemounts
    /\ silentModeRef' = [silentModeRef EXCEPT ![s] = TRUE]
    /\ ttsBufferRef' = [ttsBufferRef EXCEPT ![s] = <<>>]
    /\ spokenContentRef' =
           [spokenContentRef EXCEPT ![s] = ReplayBuffer(terminalBuffers[s], 1, <<>>)]
    /\ mountNo' = [mountNo EXCEPT ![s] = @ + 1]
    /\ recorded' = [recorded EXCEPT ![s] = Append(@, Range(spokenContentRef[s]))]
    /\ ptyWritten' = [ptyWritten EXCEPT ![s] = FALSE]
    /\ display' = [display EXCEPT ![s] = Join(terminalBuffers[s])]
    /\ UNCHANGED <<voiceVars, voiceOutputEnabled, terminalBuffers, speakCalls,
                   refVars, toggles, pending>>

\* The tab of session s is closed: the Terminal unmounts (the cleanup of
\* the mount effect) and clearTerminalBuffer drops its history.  The refs
\* of the component are gone; a terminal opened later in the slot starts
\* with fresh ones (counted as one more mount of the slot, with nothing
\* recorded for it).  Nothing of the voice provider is touched.
CloseTab(s) ==
    /\ mountNo[s] < MaxRemounts
    /\ terminalBuffers' = [terminalBuffers EXCEPT ![s] = <<>>]
    /\ spokenContentRef' = [spokenContentRef EXCEPT ![s] = <<>>]
    /\ ttsBufferRef' = [ttsBufferRef EXCEPT ![s] = <<>>]
    /\ silentModeRef' = [silentModeRef EXCEPT ![s] = TRUE]
    /\ mountNo' = [mountNo EXCEPT ![s] = @ + 1]
    /\ recorded' = [recorded EXCEPT ![s] = Append(@, {})]
    /\ ptyWritten' = [ptyWritten EXCEPT ![s] = FALSE]
    /\ display' = [display EXCEPT ![s] = <<>>]
    /\ UNCHANGED <<voiceVars, voiceOutputEnabled, speakCalls, refVars, toggles,
                   pending>>

\* The tab of session s becomes the active one; the isActive effects run.
SetActive(s) ==
    /\ ~isActiveRef[s]
    /\ isActiveRef' = [t \in Sessions |-> t = s]
    /\ UNCHANGED <<voiceVars, voiceOutputEnabled, termVars, termVoiceEnabledRef,
                   toggles, pending>>

-----------------------------------------------------------------------------
(* Specifications.                                                         *)

VoiceEvent ==
    \E u \in Units :
        \/ ProcExit(u)
        \/ VoiceSpeakReturns(u)
        \/ TestSpeakReturns(u)
        \/ AudioEnded(u)
        \/ AudioError(u)
        \/ PlayRejected(u)

TerminalEvent ==
    \E s \in Sessions :
        \/ PtyData(s)
        \/ UserInput(s)
        \/ Remount(s)
        \/ SetActive(s)

\* The application: terminals feeding the voice provider.
Next ==
    \/ TerminalEvent
    \/ HandleVoiceOutput
    \/ VoiceEvent

Spec == Init /\ [][Next]_vars

\* The voice provider driven through its context interface.
NextVoice ==
    \/ \E text \in SampleTexts : SpeakTextCall(text)
    \/ StopSpeakingCall
    \/ HandleVoiceOutput
    \/ VoiceEvent

SpecVoice == Init /\ [][NextVoice]_vars

\* The voice provider when nothing stops it: voice output is switched on
\* and stays on, texts are spoken, and the environment is fair: every
\* piper process exits, every IPC reply is delivered to the code that
\* awaits it, every playing audio element ends or errors, every rejected
\* play() is reported.
EnableVoice ==
    /\ ~voiceOutputEnabled
    /\ HandleVoiceOutput

NextLive ==
    \/ EnableVoice
    \/ \E text \in SampleTexts : SpeakTextCall(text)
    \/ VoiceEvent

FairEnvironment ==
    \A u \in Units :
        /\ WF_vars(ProcExit(u))
        /\ WF_vars(VoiceSpeakReturns(u))
        /\ WF_vars(TestSpeakReturns(u))
        /\ WF_vars(AudioEnded(u) \/ AudioError(u))
        /\ WF_vars(PlayRejected(u))

SpecLive == Init /\ [][NextLive]_vars /\ FairEnvironment


\* The application with the output of one terminal only: session 1 is fed,
\* typed into and remounted, the tabs are switched, voice output is toggled.
NextTerm ==
    \/ PtyData(1)
    \/ UserInput(1)
    \/ Remount(1)
    \/ \E s \in Sessions : SetActive(s)
    \/ HandleVoiceOutput
    \/ VoiceEvent

SpecTerm == Init /\ [][NextTerm]_vars


\* The application with one terminal that is fed whole segments, typed
\* into and closed while voice output is toggled.
NextClose ==
    \/ PtySegment(1)
    \/ UserInput(1)
    \/ CloseTab(1)
    \/ HandleVoiceOutput
    \/ VoiceEvent

SpecClose == Init /\ [][NextClose]_vars


\* The terminals without the voice side: every terminal is fed whole
\* segments, gets input by typing or by another path, is remounted, and
\* the tabs are switched.  Voice output stays off.
NextSessions ==
    \E s \in Sessions :
        \/ PtySegment(s)
        \/ UserInput(s)
        \/ PasteInput(s)
        \/ Remount(s)
        \/ SetActive(s)

SpecSessions == Init /\ [][NextSessions]_vars

\* One terminal that receives segments of code and of prose, with voice
\* output switched on at some point and the provider processing.
NextClassify ==
    \/ PtyCode(1)
    \/ UserInput(1)
    \/ EnableVoice
    \/ VoiceEvent

SpecClassify == Init /\ [][NextClassify]_vars

\* One terminal that receives segments of all kinds of text, with voice
\* output switched on at some point and the provider processing.
NextProse ==
    \/ PtyProse(1)
    \/ UserInput(1)
    \/ EnableVoice
    \/ VoiceEvent

SpecProse == Init /\ [][NextProse]_vars

\* One terminal that receives segments that may stay open, with voice
\* output switched on at some point and the provider processing.
NextOpen ==
    \/ PtyOpen(1)
    \/ UserInput(1)
    \/ EnableVoice
    \/ VoiceEvent

SpecOpen == Init /\ [][NextOpen]_vars

\* One terminal that receives long output, is typed into and remounts.
NextBuffer ==
    \/ PtyLong(1)
    \/ UserInput(1)
    \/ Remount(1)

SpecBuffer == Init /\ [][NextBuffer]_vars

\* One terminal with a long past that goes on receiving new segments, is
\* typed into and remounts.
NextSpoken ==
    \/ PtyUnique(1)
    \/ UserInput(1)
    \/ Remount(1)

SpecSpoken == InitSpoken /\ [][NextSpoken]_vars

\* One terminal with a history near the limit of the buffer that goes on
\* receiving lines until its process exits, and is typed into.
NextHistory ==
    \/ PtyLine(1)
    \/ PtyExit(1)
    \/ UserInput(1)

SpecHistory == InitHistory /\ [][NextHistory]_vars

\* Re-chunking: one fixed PTY output reaches the handler of session 1 of a
\* freshly mounted terminal in chunks cut at arbitrary places.
SampleStreams ==
    { <<"x">> \o ChunkB \o <<"y">>,
      ChunkA \o ChunkB,
      OpenMarker \o <<"H", "e", "l", "ESC", "[", "0", "m", "l", "o", " ", "b">>
                 \o CloseMarker,
      OpenMarker \o <<" ">> \o HelloA \o <<" ">> \o CloseMarker }

InitChunk ==
    /\ BaseInit
    /\ pending \in SampleStreams

\* the PTY delivers the next k characters of the output as one chunk
DeliverChunk ==
    \E k \in 1..Len(pending) :
        /\ OnPtyData(1, SubSeq(pending, 1, k))
        /\ pending' = SubSeq(pending, k + 1, Len(pending))

SpecChunk == InitChunk /\ [][DeliverChunk]_vars


-----------------------------------------------------------------------------
(* Properties.                                                             *)

\* the chunks of a history buffer as one text
RECURSIVE Flatten(_)
Flatten(chunks) ==
    IF chunks = <<>> THEN <<>> ELSE Head(chunks) \o Flatten(Tail(chunks))

\* the processQueue loops that were entered and have not returned
ActiveLoops == {u \in LoopUnits : awaiting[u] \in {"synth", "audio"}}

\* the audio elements that are playing
Playing == {u \in Units : audio[u] = "playing"}

\* unit n waits in the queue
InQueue(n) == \E i \in DOMAIN speakQueueRef : speakQueueRef[i].n = n

\* C1: a content that the spoken set of a session held when the session was
\* remounted is not passed to speakText by that session after the remount.
C1_NoRespeakAfterRemount ==
    \A i \in DOMAIN speakCalls :
        \A k \in 1..speakCalls[i].mount :
            speakCalls[i].text \notin recorded[speakCalls[i].s][k]

\* C2: when a PTY output has been delivered completely, in whatever chunks,
\* the accepted, non-duplicate segments are those that the same output
\* yields when it arrives as one chunk.
C2_ChunkBoundaryInvariant ==
    pending = <<>> =>
        spokenContentRef[1] = TtsStep(<<>>, <<>>, Flatten(terminalBuffers[1])).spoken

\* C3: between two remounts (the spoken set is never evicted within the
\* bounds) a session passes each content to speakText at most once.
C3_SpokenOncePerMount ==
    \A i, j \in DOMAIN speakCalls :
        ( /\ i # j
          /\ speakCalls[i].s = speakCalls[j].s
          /\ speakCalls[i].mount = speakCalls[j].mount )
        => speakCalls[i].text # speakCalls[j].text

\* C3 witness: the same segment arrived twice while voice output was on and
\* the terminal active and out of silent mode, and was spoken once.
C3_Witness ==
    /\ mountNo[1] = 0
    /\ terminalBuffers[1] = <<ChunkB, ChunkB>>
    /\ toggles = 1 /\ termVoiceEnabledRef[1] /\ isActiveRef[1] /\ ~silentModeRef[1]
    /\ Len(speakCalls) = 1
    /\ speakCalls[1].text = HelloB

\* C4: at most one processQueue loop is active at any time.
C4_AtMostOneLoop == Cardinality(ActiveLoops) <= 1

\* C5: at most one audio element is playing at any time.
C5_AtMostOneAudio == Cardinality(Playing) <= 1

\* C6: no audio element is ever made for a text whose synthesis a loop was
\* awaiting when stopSpeaking was called.
C6_StopDiscardsInFlight == \A u \in stopped : audio[u] = "none"

\* C7: a stopSpeaking call made while a queue entry's audio is playing
\* leaves no queue entry's audio playing, the queue empty and the
\* processing flag clear; and a speakText call made when the flag is clear
\* calls the synthesis service for its text at once.
C7_StopThenFreshCycle ==
    [][ /\ ( StopSpeakingCall /\ Playing \cap LoopUnits # {} )
           => /\ \A u \in LoopUnits : audio'[u] # "playing"
              /\ speakQueueRef' = <<>>
              /\ ~isProcessingRef'
        /\ \A text \in SampleTexts :
             ( SpeakTextCall(text) /\ voiceOutputEnabledRef /\ ~isProcessingRef )
             => /\ Len(enq') = Len(enq) + 1
                /\ proc'[Len(enq')] = "running"
      ]_vars

\* C8: queue entries are played in the order they were pushed, one after
\* the other: of two entries that both started playing, the one pushed
\* first started first and is no longer playing.
C8_FifoPlayback ==
    \A i, j \in DOMAIN startLog :
        ( /\ startLog[i] \in LoopUnits
          /\ startLog[j] \in LoopUnits
          /\ startLog[i] < startLog[j] )
        => /\ i < j
           /\ audio[startLog[i]] # "playing"

\* C9: while a session is in silent mode it has passed nothing to speakText
\* since its last mount, and its spoken set holds every segment that the
\* live path accepts from its buffered history.
C9_SilentRecordsWithoutSpeaking ==
    \A s \in Sessions :
        silentModeRef[s] =>
            /\ \A i \in DOMAIN speakCalls :
                   ~(speakCalls[i].s = s /\ speakCalls[i].mount = mountNo[s])
            /\ Range(LiveSegments(terminalBuffers[s], 1, <<>>, <<>>))
                   \subseteq Range(spokenContentRef[s])


\* a loop that will go on: it awaits voiceSpeak, or an audio element that
\* is playing or about to report that it cannot
LiveLoops ==
    {u \in LoopUnits :
        \/ awaiting[u] = "synth"
        \/ awaiting[u] = "audio" /\ audio[u] \in {"playing", "failed"}}

\* session s speaks what it accepts
GateOpen(s) == termVoiceEnabledRef[s] /\ isActiveRef[s] /\ ~silentModeRef[s]

\* C10, the step: when a chunk brings session s one new qualifying segment
\* while voice output is on and s is active and out of silent mode, the
\* cleaned segment becomes exactly one new queue entry, and the synthesis
\* service is called for it in the same step if no loop was processing,
\* else it waits in the queue.
C10_ArrivalStep ==
    \A s \in Sessions :
        ( /\ GateOpen(s)
          /\ terminalBuffers'[s] # terminalBuffers[s]
          /\ Len(spokenContentRef'[s]) = Len(spokenContentRef[s]) + 1 )
        => LET n       == Len(enq) + 1
               content == spokenContentRef'[s][Len(spokenContentRef'[s])]
           IN  /\ Len(enq') = n
               /\ enq'[n] = CleanText(content)
               /\ Len(speakCalls') = Len(speakCalls) + 1
               /\ speakCalls'[Len(speakCalls')].n = n
               /\ speakCalls'[Len(speakCalls')].text = content
               /\ IF isProcessingRef
                  THEN proc'[n] = "none" /\ speakQueueRef' = Append(speakQueueRef,
                                                [n |-> n, text |-> enq'[n]])
                  ELSE proc'[n] = "running" /\ speakQueueRef' = <<>>

\* C10, the state: as long as voice output has stayed on since a segment
\* was passed to speakText, the segment either waits in the queue of a
\* processing loop or has had its one call of the synthesis service.
C10_OneCallEach ==
    /\ \A i \in DOMAIN speakCalls :
           speakCalls[i].tog = toggles =>
               InQueue(speakCalls[i].n) = (proc[speakCalls[i].n] = "none")
    /\ speakQueueRef # <<>> => isProcessingRef /\ LiveLoops # {}

\* C10: with voice output on and the session active, a new qualifying
\* segment that arrives after the first user input (in particular after a
\* silent replay) gets exactly one call of the synthesis service.
C10_OneSynthesisPerNewSegment ==
    [][C10_ArrivalStep]_vars /\ []C10_OneCallEach

\* C10 witness: history replayed silently, then the first user input, then
\* one new segment, for which the synthesis service has been called.
C10_Witness ==
    /\ terminalBuffers[1] = <<ChunkA, ChunkB>>
    /\ mountNo[1] = 1
    /\ recorded[1] = <<{HelloA}>>
    /\ spokenContentRef[1] = <<HelloA, HelloB>>
    /\ Len(speakCalls) = 1
    /\ speakCalls[1].text = HelloB
    /\ proc[speakCalls[1].n] = "running"

\* C11: a content is enqueued only in the step in which it clears the
\* dedup test of its session, and only if at that moment voice output is
\* on, the session is the active one and it is not in silent mode; in
\* every case the content is recorded in the spoken set.  A content
\* already in the spoken set is never enqueued by a later step: the queue
\* grows by nothing but the contents a step newly records.
C11_EnqueueOnlyAtAcceptance ==
    [][ /\ \A s \in Sessions :
             terminalBuffers'[s] # terminalBuffers[s] =>
               LET old   == spokenContentRef[s]
                   new   == spokenContentRef'[s]
                   added == SubSeq(new, Len(old) + 1, Len(new))
               IN  /\ Len(new) >= Len(old)
                   /\ SubSeq(new, 1, Len(old)) = old
                   /\ \A i \in DOMAIN added : added[i] \notin Range(old)
                   /\ enq' = enq \o (IF GateOpen(s)
                                     THEN [i \in DOMAIN added |-> CleanText(added[i])]
                                     ELSE <<>>)
        /\ terminalBuffers' = terminalBuffers => enq' = enq
      ]_vars

\* C11 witness: Hello a was recorded without being enqueued and came
\* again; Hello b arrived with the gate open and is the only text that was
\* ever enqueued, though the gate is open now for both.
C11_Witness ==
    /\ terminalBuffers[1] = <<ChunkA, ChunkA, ChunkB>>
    /\ spokenContentRef[1] = <<HelloA, HelloB>>
    /\ GateOpen(1)
    /\ enq = <<HelloB>>
    /\ Len(speakCalls) = 1

\* the segments the handler extracts from a history delivered as one text
HistorySegments(s) ==
    Range(TtsStep(<<>>, <<>>, Flatten(terminalBuffers[s])).spoken)

\* C12: the mount-time replay of a session's history leaves in the spoken
\* set every segment the concatenated history holds as a complete pair of
\* markers, also those whose markers lie in different chunks, and passes
\* none of them to speakText.
C12_ReplayRegistersHistory ==
    [][ \A s \in Sessions :
          mountNo'[s] > mountNo[s] =>
            /\ HistorySegments(s) \subseteq Range(spokenContentRef'[s])
            /\ enq' = enq
            /\ speakCalls' = speakCalls
      ]_vars

\* the positions in text at which an occurrence of the marker starts
MarkerStarts(text, marker) ==
    {i \in 1..Len(text) : MatchesAt(text, marker, i)}

\* a text cut after its first cut characters has the cut inside a marker
CutInsideMarker(text, cut) ==
    \E marker \in {OpenMarker, CloseMarker} :
        \E i \in MarkerStarts(text, marker) :
            i <= cut /\ cut < i + Len(marker) - 1

\* C13: when the output reaches the handler in two chunks and the cut lies
\* inside an open or a close marker, the segments extracted are those
\* extracted when the same output arrives as one chunk.
C13_SplitMarkerExtracted ==
    ( /\ pending = <<>>
      /\ Len(terminalBuffers[1]) = 2
      /\ CutInsideMarker(Flatten(terminalBuffers[1]), Len(terminalBuffers[1][1])) )
    => spokenContentRef[1] =
           TtsStep(<<>>, <<>>, terminalBuffers[1][1] \o terminalBuffers[1][2]).spoken

C15_StopResolvesAudioWait ==
    [][ StopSpeakingCall =>
          \A u \in LoopUnits :
              (awaiting[u] = "audio" /\ audio[u] = "playing")
                  => awaiting'[u] # "audio"
      ]_vars

\* the loop that waited for unit u goes on with the head of the queue: it
\* takes it off the queue and calls the synthesis service for it
AdvancesPast(u) ==
    /\ awaiting'[u] = "none"
    /\ IF speakQueueRef = <<>>
       THEN speakQueueRef' = <<>>
       ELSE /\ speakQueueRef' = Tail(speakQueueRef)
            /\ proc[Head(speakQueueRef).n] = "none"
            /\ proc'[Head(speakQueueRef).n] = "running"
            /\ awaiting'[Head(speakQueueRef).n] = "synth"

\* C16: when the synthesis of a queued item fails, or its audio fails to
\* start or errors (or ends), the loop advances to the next queued item in
\* that same step: the rest of the queue is kept and the item at its head
\* gets its synthesis call.
C16_ErrorsDoNotAbortQueue ==
    [][ \A u \in LoopUnits :
          /\ ( awaiting[u] = "synth" /\ proc[u] = "replyErr" /\ proc'[u] = "done" )
                 => AdvancesPast(u)
          /\ ( awaiting[u] = "audio" /\ audio[u] \in {"playing", "failed"}
                                     /\ audio'[u] = "done" )
                 => AdvancesPast(u)
      ]_vars

\* C16 witness: the first item's audio failed to start (it never played),
\* and the second item, which waited in the queue, has its synthesis call.
C16_Witness ==
    /\ Len(enq) = 2
    /\ proc[1] = "done" /\ audio[1] = "done" /\ startLog = <<>>
    /\ awaiting[1] = "none"
    /\ proc[2] = "running" /\ awaiting[2] = "synth"
    /\ stopped = {}

\* the provider is idle and every text that was queued has had its call of
\* the synthesis service, which has returned
IdleAllSynthesized ==
    /\ speakQueueRef = <<>>
    /\ ~isProcessingRef
    /\ ActiveLoops = {}
    /\ \A n \in 1..Len(enq) : proc[n] = "done"

\* C17: with no stop, every synthesis call returning and every audio
\* ending or failing, a non-empty queue leads to the idle state in which
\* every queued text has had its synthesis call; and the synthesis service
\* is called once per text: a call is made only for a text that had none.
C17_QueueDrainsToIdle ==
    /\ (speakQueueRef # <<>>) ~> IdleAllSynthesized
    /\ [][\A u \in LoopUnits :
            (proc'[u] = "running" /\ proc[u] # "running") => proc[u] = "none"]_vars

\* C17 witness: two texts were queued, the second while the first was
\* processed; both were synthesized and played, and the provider is idle.
C17_Witness ==
    /\ Len(enq) = 2
    /\ startLog = <<1, 2>>
    /\ audio[1] = "done" /\ audio[2] = "done"
    /\ IdleAllSynthesized

\* C18: the step that switches voice output off clears the queue and
\* leaves no audio playing; and while voice output is off no text is
\* enqueued and no audio element starts playing.
C18_DisabledMeansSilent ==
    [][ /\ (voiceOutputEnabled /\ ~voiceOutputEnabled')
            => (speakQueueRef' = <<>> /\ Playing' = {})
        /\ ~voiceOutputEnabled
            => (enq' = enq /\ startLog' = startLog)
      ]_vars

\* C19: when the tab of a session is closed, no audio of a text that the
\* session enqueued goes on playing and none of its texts stays in the
\* queue.
C19_TeardownStops ==
    [][ \A s \in Sessions :
          (terminalBuffers[s] # <<>> /\ terminalBuffers'[s] = <<>>) =>
             \A i \in DOMAIN speakCalls :
                 speakCalls[i].s = s =>
                    /\ audio'[speakCalls[i].n] # "playing"
                    /\ \A k \in DOMAIN speakQueueRef' :
                           speakQueueRef'[k].n # speakCalls[i].n
      ]_vars

\* C20: every text in the queue and every playing audio of a queued text
\* comes from the session that is the active one now.
C20_OnlyActiveSessionHeard ==
    \A i \in DOMAIN speakCalls :
        (InQueue(speakCalls[i].n) \/ audio[speakCalls[i].n] = "playing")
            => isActiveRef[speakCalls[i].s]

\* C28: the silent flag of a session is true exactly while no user input
\* has been sent to the terminal's process since the Terminal was mounted.
C28_SilentUntilFirstInput ==
    \A s \in Sessions : silentModeRef[s] = ~ptyWritten[s]

\* C29: a chunk, a user input or a remount of one session leaves the
\* buffer, the spoken set and the silent flag of every other session as
\* they were.
C29_SessionsAreSeparate ==
    [][ \A s \in Sessions :
          (PtySegment(s) \/ UserInput(s) \/ PasteInput(s) \/ Remount(s)) =>
             \A t \in Sessions \ {s} :
                 /\ ttsBufferRef'[t] = ttsBufferRef[t]
                 /\ spokenContentRef'[t] = spokenContentRef[t]
                 /\ silentModeRef'[t] = silentModeRef[t]
      ]_vars

\* C29 witness: session 1 has received a segment, been typed into and been
\* remounted after session 2 had recorded a segment; session 2 still has
\* its spoken set and its silent flag.
C29_Witness ==
    /\ mountNo[1] = 1 /\ mountNo[2] = 0
    /\ terminalBuffers[1] = <<ChunkA>>
    /\ terminalBuffers[2] = <<ChunkB>>
    /\ spokenContentRef[2] = <<HelloB>>
    /\ silentModeRef[2] /\ ~silentModeRef[1]

\* what the claim compares of the provider: queue, audio handle,
\* processing flag, isSpeaking
StopView(v) ==
    <<v.speakQueueRef, v.audioRef, v.isProcessingRef, v.isSpeaking>>

\* C24: in every state of the provider stopSpeaking can be called, and a
\* second call right after the first leaves the queue, the audio handle,
\* the processing flag and isSpeaking as the first call left them.
C24_StopIsIdempotent ==
    /\ StopView(stopSpeaking(VoiceState)) = <<<<>>, NULL, FALSE, FALSE>>
    /\ StopView(stopSpeaking(stopSpeaking(VoiceState)))
           = StopView(stopSpeaking(VoiceState))

\* C24 witness: stopSpeaking was called while a loop waited for its audio,
\* with a second text in the queue; the state is the one a stop leaves.
C24_Witness ==
    /\ awaiting[1] = "audio" /\ audio[1] = "paused"
    /\ Len(enq) = 2 /\ proc[2] = "none"
    /\ StopView(VoiceState) = <<<<>>, NULL, FALSE, FALSE>>

\* C25: whenever no processQueue loop is active, the audio handle is null.
C25_IdleHasNoAudioHandle ==
    (ActiveLoops = {} /\ ~isProcessingRef) => audioRef = NULL

\* text holds code-like punctuation or a declaration keyword followed by
\* white space
CodeLike(text) ==
    \/ \E i \in DOMAIN text :
           text[i] \in {"{", "}", "(", ")", "[", "]", ";", "=", "BACKTICK"}
    \/ \E kw \in { <<"f","u","n","c","t","i","o","n">>, <<"c","o","n","s","t">>,
                   <<"l","e","t">>, <<"v","a","r">> } :
           \E i \in DOMAIN text :
               /\ MatchesAt(text, kw, i)
               /\ i + Len(kw) <= Len(text)
               /\ text[i + Len(kw)] \in Whitespace

\* C30: the live path records no code-like segment in the spoken set and
\* enqueues none, whatever delimited segments arrive and whether or not
\* voice output is on.
C30_CodeIsRejected ==
    /\ \A s \in Sessions : \A i \in DOMAIN spokenContentRef[s] :
           ~CodeLike(spokenContentRef[s][i])
    /\ \A i \in DOMAIN enq : ~CodeLike(enq[i])
    /\ \A i \in DOMAIN speakCalls : ~CodeLike(speakCalls[i].text)

\* C30 witness: with voice output on and the session out of silent mode,
\* "function foo() {" arrived, then a keyword-only segment, then a prose
\* segment; only the prose segment was recorded and enqueued.
C30_Witness ==
    /\ GateOpen(1)
    /\ terminalBuffers[1] = << OpenMarker \o FunctionFoo \o CloseMarker,
                               OpenMarker \o <<"v","a","r"," ","a","b","c">>
                                          \o CloseMarker,
                               ChunkA >>
    /\ speakCalls = << [s |-> 1, text |-> HelloA, mount |-> 0, tog |-> 1, n |-> 1] >>
    /\ spokenContentRef[1] = <<HelloA>>
    /\ enq = <<HelloA>>

\* the unconsumed remainder of a buffer after the chunk data: the buffer
\* and the clean chunk, from the end of the last complete segment on
Remainder(buffer, data) ==
    LET full == buffer \o stripAnsi(data)
        segs == TagMatches(full, 1)
    IN  IF segs = <<>> THEN full ELSE Substring(full, segs[Len(segs)].next)

\* C26: after every chunk the carry-over buffer is at most 2000 characters
\* long, and when the unconsumed remainder (one that holds an open marker,
\* so that it is not cleared) is longer, the buffer is its last 2000
\* characters.
C26_BufferIsCapped ==
    [][ \A data \in LongChunks :
          OnPtyData(1, data) =>
             LET rest == Remainder(ttsBufferRef[1], data)
             IN  /\ Len(ttsBufferRef'[1]) <= MAX_TTS_BUFFER
                 /\ (Len(rest) > MAX_TTS_BUFFER /\ Includes(rest, OpenPrefix)) =>
                       ttsBufferRef'[1] =
                           SubSeq(rest, Len(rest) - MAX_TTS_BUFFER + 1, Len(rest)) ]_vars

\* C26 witness: a segment opened and 2405 characters arrived without its
\* close marker; the buffer is the last 2000 of them.
C26_Witness ==
    /\ terminalBuffers[1] = <<LongOpen, LongFill>>
    /\ Len(ttsBufferRef[1]) = MAX_TTS_BUFFER
    /\ ttsBufferRef[1] = Fill(MAX_TTS_BUFFER - LongLen, "a") \o LongFill

\* C27: after every chunk the carry-over buffer is empty or holds an open
\* marker.
C27_EmptyOrOpenMarker ==
    \A s \in Sessions :
        ttsBufferRef[s] = <<>> \/ Includes(ttsBufferRef[s], OpenPrefix)

\* C21: the spoken set of a session never holds more than 1000 entries.
C21_SpokenSetBounded ==
    \A s \in Sessions : Len(spokenContentRef[s]) <= MAX_SPOKEN

\* the spoken set of session s as the exec loop of the handler leaves it
\* for the chunk data, before the size limit
BeforeLimit(s, data) ==
    AcceptMatches(TagMatches(ttsBufferRef[s] \o stripAnsi(data), 1), 1,
                  spokenContentRef[s])

\* the chunks session s can receive next in a stream of new segments
NextBlocks(s) == {SegBlock(Received(s) + 1, n) : n \in NewSegs..(NewSegs + 2)}

RECURSIVE LiveRange(_, _, _, _)
LiveRange(chunks, lo, hi, st) ==
    IF lo > hi THEN st
    ELSE IF lo = hi
         THEN Only({[buffer   |-> r.buffer,
                     spoken   |-> r.spoken,
                     accepted |-> st.accepted \o r.accepted] :
                        r \in {TtsStep(st.buffer, st.spoken, chunks[lo])}})
         ELSE LET mid == (lo + hi) \div 2
              IN  Only({LiveRange(chunks, mid + 1, hi, first) :
                           first \in {LiveRange(chunks, lo, mid, st)}})

\* what a fresh session accepts when it starts from the spoken set of
\* session s and receives the chunks of the history of s again
SecondRun(s) ==
    LiveRange(terminalBuffers[s], 1, Len(terminalBuffers[s]),
              [buffer |-> <<>>, spoken |-> spokenContentRef[s],
               accepted |-> <<>>]).accepted

\* C23 as stated: after any run of a session (its history is the chunk
\* sequence of the run while it has not remounted), a second run of the
\* same chunks from its final spoken set accepts nothing.
C23_SecondRunAcceptsNothing ==
    \A s \in Sessions :
        (mountNo[s] = 0 /\ terminalBuffers[s] # <<>>) => SecondRun(s) = <<>>

\* C23, amended: a second run of the same chunks from the final spoken set
\* accepts nothing, provided the first run held at most 1000 different
\* segments, so that the size limit dropped none of them.
C23_SecondRunWithinCeiling ==
    (mountNo[1] = 0 /\ Received(1) <= MAX_SPOKEN) => SecondRun(1) = <<>>

\* C23 witness: a run of exactly 1000 different segments, all of them in
\* the spoken set, and a second run that accepts nothing.
C23_Witness ==
    /\ mountNo[1] = 0
    /\ Received(1) = MAX_SPOKEN
    /\ Len(spokenContentRef[1]) = MAX_SPOKEN
    /\ SecondRun(1) = <<>>

\* C34: isSpeaking is true whenever a processQueue loop is active or an
\* audio element of the queue is playing, and false whenever there is no
\* loop, no processing flag and no such audio.
C34_IsSpeakingTracksActivity ==
    /\ (ActiveLoops # {} \/ Playing \cap LoopUnits # {}) => isSpeaking
    /\ (ActiveLoops = {} /\ Playing \cap LoopUnits = {} /\ ~isProcessingRef)
           => ~isSpeaking

\* C37: when a call of stopSpeaking (which calls VoiceManager.stopSpeaking)
\* has returned, no process spawned by speak is running and none is
\* tracked.
C37_StopLeavesNoProcess ==
    [][ StopSpeakingCall =>
          /\ \A u \in Units : proc'[u] # "running"
          /\ speakingProcess' = NULL ]_vars

\* C31: no segment of five characters or fewer after trimming is recorded
\* by the live path, passed to speakText or enqueued.
C31_ShortIsRejected ==
    /\ \A s \in Sessions : \A i \in DOMAIN spokenContentRef[s] :
           Len(spokenContentRef[s][i]) > MIN_PROSE_LEN
    /\ \A i \in DOMAIN speakCalls : Len(speakCalls[i].text) > MIN_PROSE_LEN
    /\ \A i \in DOMAIN enq :
           \E j \in DOMAIN speakCalls :
               speakCalls[j].n = i /\ Len(speakCalls[j].text) > MIN_PROSE_LEN

\* C31 witness: with the gate open "ok", "Hello" and "Zebra!" arrived as
\* delimited segments; only the one of six characters was recorded and
\* enqueued.
C31_Witness ==
    /\ GateOpen(1)
    /\ terminalBuffers[1] =
           <<Wrap(<<"o","k">>), Wrap(<<"H","e","l","l","o">>), Wrap(ZebraText)>>
    /\ spokenContentRef[1] = <<ZebraText>>
    /\ enq = <<ZebraText>>

\* text holds a token of the code test: those of CodeLike or a dollar sign
HasCodeToken(text) == CodeLike(text) \/ \E i \in DOMAIN text : text[i] = "$"

HasMarker(text) == Includes(text, OpenMarker) \/ Includes(text, CloseMarker)

\* C35: no text for which the synthesis service was called holds a speech
\* marker.
C35_NoMarkerIsSynthesized ==
    \A u \in LoopUnits : proc[u] # "none" => ~HasMarker(enq[u])

\* the text without its blanks
NoBlanks(text) == SelectSeq(text, LAMBDA ch : ch # " ")

\* C36: when the gate of the session is open, every segment a chunk adds to
\* the spoken set (it passed the classifier and the dedup check) is
\* appended to the queue by speakText, blanks apart.
C36_AcceptedIsEnqueued ==
    [][ \A text \in ProseTexts :
          (OnPtyData(1, Wrap(text)) /\ GateOpen(1)) =>
             LET old == Len(spokenContentRef[1])
                 n   == Len(spokenContentRef'[1]) - old
             IN  /\ Len(enq') = Len(enq) + n
                 /\ \A i \in 1..n :
                        /\ Len(enq'[Len(enq) + i]) >= MIN_CLEAN_LEN
                        /\ NoBlanks(enq'[Len(enq) + i]) =
                               NoBlanks(spokenContentRef'[1][old + i]) ]_vars

\* C36 witness: with the gate open the segment of two letters and five
\* blanks between them arrived; its clean text of three characters is in
\* the queue log.
C36_Witness ==
    /\ GateOpen(1)
    /\ terminalBuffers[1] = <<Wrap(SpacedText)>>
    /\ spokenContentRef[1] = <<SpacedText>>
    /\ enq = << <<"a", " ", "b">> >>

\* C33: no speech marker is ever on the display of a terminal: the text
\* written to it holds neither an open nor a close marker.
C33_NoMarkerOnDisplay ==
    \A s \in Sessions : ~HasMarker(display[s])

\* C38: the history buffer of a session never holds more than
\* MAX_BUFFER_CHUNKS chunks.
C38_HistoryIsCapped ==
    \A s \in Sessions : Len(terminalBuffers[s]) <= MAX_BUFFER_CHUNKS

=============================================================================
